---- MODULE Spec2Model ----
(***************************************************************************)
(* Meeting Agent (src/main.py): the transcript analysis pipeline and the   *)
(* session state the Streamlit script keeps between reruns.                *)
(*                                                                         *)
(* Text is a sequence of one-character strings, so that str.lower, the     *)
(* substring test (in), str.strip and str.split are computed as Python     *)
(* computes them.  A date is a day number, and strftime("%Y-%m-%d"), which *)
(* is injective on dates, writes it in digits.                             *)
(***************************************************************************)
EXTENDS Integers, Sequences, FiniteSets, TLC

VARIABLES
    heap,              \* the Meeting objects allocated so far; a reference is an index
    extracted_from,    \* history: per object, the transcript its extraction last ran on
    meetings,          \* st.session_state.meetings: a list of references
    current_meeting,   \* st.session_state.current_meeting: a reference, or None
    is_recording,      \* st.session_state.is_recording
    api_key,           \* st.session_state.api_key
    use_ai,            \* the "Use AI Processing" checkbox
    attendees,         \* the attendee list parsed from the sidebar text area
    transcript_input,  \* the transcript text area (key "transcript_input")
    clock,             \* the latest reading of datetime.now(), in ticks (seconds)
    hashSeed,          \* the interpreter's string-hash seed, as the order it gives a set
    service,           \* what the text-generation service answers to the next requests
    op,                \* history: the handler or function that ran last
    path,              \* history: the extraction path the last handler took
    ret,               \* the value the last extractor call returned
    memo,              \* history: the first output of the heuristic extractor
    runs,              \* history: the reruns of the script so far
    saved,             \* history: the objects a Save has committed so far
    requests           \* history: the requests the last rerun sent to the service

vars == <<heap, extracted_from, meetings, current_meeting, is_recording, api_key,
          use_ai, attendees, transcript_input, clock, hashSeed, service, op, path,
          ret, memo, runs, saved, requests>>

None == 0

-----------------------------------------------------------------------------
(* Bounds of the model.                                                    *)

MaxObjs == 2        \* Meeting objects allocated in one session
MaxRuns == 5        \* widget events (reruns of the script) in one session
MaxClock == 2       \* the clock stops at this tick
TicksPerDay == 2    \* ticks in a day (a day's 86400 seconds, scaled down)
MaxWords == 3       \* words in a generated transcript line
MaxToks == 3        \* tokens in a generated service response body

(* Program constants.                                                      *)

DueDefaultDays == 7
DueTomorrowDays == 1
DueEndOfWeekDays == 5
DescLimit == 100
DefaultDuration == 30

-----------------------------------------------------------------------------
(* Python str operations on character sequences.                           *)

IsSpace(c) == c \in {" ", "\n", "\t"}

LowerChar(c) ==
    CASE c = "A" -> "a" [] c = "B" -> "b" [] c = "C" -> "c" [] c = "D" -> "d"
      [] c = "E" -> "e" [] c = "F" -> "f" [] c = "G" -> "g" [] c = "H" -> "h"
      [] c = "I" -> "i" [] c = "J" -> "j" [] c = "K" -> "k" [] c = "L" -> "l"
      [] c = "M" -> "m" [] c = "N" -> "n" [] c = "O" -> "o" [] c = "P" -> "p"
      [] c = "Q" -> "q" [] c = "R" -> "r" [] c = "S" -> "s" [] c = "T" -> "t"
      [] c = "U" -> "u" [] c = "V" -> "v" [] c = "W" -> "w" [] c = "X" -> "x"
      [] c = "Y" -> "y" [] c = "Z" -> "z" [] OTHER -> c

\* s.lower()
Lower(s) == [i \in 1..Len(s) |-> LowerChar(s[i])]

\* sub in s
Contains(s, sub) ==
    \E i \in 0..(Len(s) - Len(sub)) : SubSeq(s, i + 1, i + Len(sub)) = sub

\* s.strip()
Strip(s) ==
    LET keep == {i \in 1..Len(s) : ~IsSpace(s[i])}
    IN  IF keep = {} THEN <<>>
        ELSE LET lo == CHOOSE i \in keep : \A j \in keep : i <= j
                 hi == CHOOSE i \in keep : \A j \in keep : j <= i
             IN  SubSeq(s, lo, hi)

\* the index of the first c in s, 0 when there is none
FirstIndex(s, c) ==
    IF \E i \in 1..Len(s) : s[i] = c
    THEN CHOOSE i \in 1..Len(s) : s[i] = c /\ \A j \in 1..(i - 1) : s[j] # c
    ELSE 0

RECURSIVE SplitOn(_, _)
\* s.split(c)
SplitOn(s, c) ==
    LET k == FirstIndex(s, c)
    IN  IF k = 0 THEN <<s>>
        ELSE <<SubSeq(s, 1, k - 1)>> \o SplitOn(SubSeq(s, k + 1, Len(s)), c)

\* s.split(':')[0]
BeforeColon(s) == SplitOn(s, ":")[1]

\* s.split(':', 1)[1]
AfterColon(s) == SubSeq(s, FirstIndex(s, ":") + 1, Len(s))

\* line.split(':', 1)[1].strip() if ':' in line else line.strip()
Content(line) ==
    IF Contains(line, <<":">>) THEN Strip(AfterColon(line)) ELSE Strip(line)

\* any(kw in s for kw in kws)
AnyIn(kws, s) == \E k \in 1..Len(kws) : Contains(s, kws[k])

-----------------------------------------------------------------------------
(* The heuristic path.                                                     *)

TopicLabels == {"Project Updates", "Timeline Discussion", "Budget Review",
                "Blockers & Issues"}

\* The topic labels one line adds to the set.
LineTopics(line) ==
    IF ~Contains(line, <<":">>) THEN {}
    ELSE LET content == Lower(Strip(AfterColon(line)))
         IN  (IF Contains(content, <<"p","r","o","j","e","c","t">>)
                  \/ Contains(content, <<"u","p","d","a","t","e">>)
              THEN {"Project Updates"} ELSE {})
             \cup
             (IF Contains(content, <<"d","e","a","d","l","i","n","e">>)
                  \/ Contains(content, <<"t","i","m","e","l","i","n","e">>)
              THEN {"Timeline Discussion"} ELSE {})
             \cup
             (IF Contains(content, <<"b","u","d","g","e","t">>)
                  \/ Contains(content, <<"c","o","s","t">>)
              THEN {"Budget Review"} ELSE {})
             \cup
             (IF Contains(content, <<"i","s","s","u","e">>)
                  \/ Contains(content, <<"p","r","o","b","l","e","m">>)
                  \/ Contains(content, <<"b","l","o","c","k","e","r">>)
              THEN {"Blockers & Issues"} ELSE {})

\* The orders in which iterating a set of the labels can yield them: the order
\* follows the strings' hashes, which the interpreter seeds once per process.
Seeds ==
    {s \in [1..Cardinality(TopicLabels) -> TopicLabels] :
        \A i, j \in DOMAIN s : i # j => s[i] # s[j]}

RECURSIVE JoinWith(_, _)
\* sep.join(parts)
JoinWith(parts, sep) ==
    IF Len(parts) = 0 THEN <<>>
    ELSE IF Len(parts) = 1 THEN <<parts[1]>>
    ELSE <<parts[1], sep>> \o JoinWith(Tail(parts), sep)

\* ', '.join(topics): the set's elements in its iteration order
JoinTopics(topics, seed) ==
    JoinWith(SelectSeq(seed, LAMBDA l : l \in topics), ", ")

extract_summary_fallback(transcript, seed) ==
    LET lines == SplitOn(Strip(transcript), "\n")
        topics == UNION {LineTopics(lines[i]) : i \in 1..Len(lines)}
        summary == <<"Meeting covered ", ToString(Len(lines)), " discussion points">>
    IN  IF topics # {}
        THEN summary \o <<" including: ">> \o JoinTopics(topics, seed) \o <<".">>
        ELSE summary

(* A Python value held in a record field: a str, a number, None, a list or *)
(* a dict, in one shape for all of them (text: the characters of a str or  *)
(* the digits of a number; items: a list's elements or a dict's values;    *)
(* keys: a dict's keys, in the order of items).                            *)
PyStr(t) == [k |-> "str", text |-> t, keys |-> <<>>, items |-> <<>>]
PyNum(t) == [k |-> "num", text |-> t, keys |-> <<>>, items |-> <<>>]
PyNone == [k |-> "none", text |-> <<>>, keys |-> <<>>, items |-> <<>>]
PyList(xs) == [k |-> "list", text |-> <<>>, keys |-> <<>>, items |-> xs]
PyDict(ks, xs) == [k |-> "dict", text |-> <<>>, keys |-> ks, items |-> xs]

\* strftime("%Y-%m-%d") of the date with day number d
FormatDate(d) == <<ToString(d)>>

Unassigned == <<"U","n","a","s","s","i","g","n","e","d">>

TaskKeywords ==
    << <<"w","i","l","l">>,
       <<"n","e","e","d"," ","t","o">>,
       <<"s","h","o","u","l","d">>,
       <<"a","c","t","i","o","n"," ","i","t","e","m">>,
       <<"t","o","d","o">>,
       <<"t","a","s","k">>,
       <<"f","o","l","l","o","w"," ","u","p">>,
       <<"d","e","a","d","l","i","n","e">> >>

\* the test that makes a line a task line, with the keywords matched as written
IsTaskLineCaseSensitive(line) == AnyIn(TaskKeywords, line)

\* any(kw in line_lower for kw in keywords)
IsTaskLine(line) == AnyIn(TaskKeywords, Lower(line))

\* the test of one attendee in the assignee loop
AttendeeMatches(att, line) ==
    \/ Contains(Lower(line), Lower(att))
    \/ (Contains(line, <<":", " ">>) /\ Contains(Lower(BeforeColon(line)), Lower(att)))

RECURSIVE AssigneeLast(_, _, _)
\* the loop without its break: the last matching attendee wins
AssigneeLast(atts, line, i) ==
    IF i > Len(atts) THEN Unassigned
    ELSE LET later == AssigneeLast(atts, line, i + 1)
         IN  IF later # Unassigned THEN later
             ELSE IF AttendeeMatches(atts[i], line) THEN atts[i]
             ELSE Unassigned

RECURSIVE AssigneeFrom(_, _, _)
\* the loop over the attendees from index i, which breaks at the first match
AssigneeFrom(atts, line, i) ==
    IF i > Len(atts) THEN Unassigned
    ELSE IF AttendeeMatches(atts[i], line) THEN atts[i]
    ELSE AssigneeFrom(atts, line, i + 1)

Assignee(atts, line) == AssigneeFrom(atts, line, 1)

\* the priority with the Low markers tested before the High ones
PriorityLowFirst(line_lower) ==
    IF Contains(line_lower, <<"w","h","e","n"," ","p","o","s","s","i","b","l","e">>)
           \/ Contains(line_lower, <<"e","v","e","n","t","u","a","l","l","y">>)
    THEN <<"L","o","w">>
    ELSE IF Contains(line_lower, <<"u","r","g","e","n","t">>)
           \/ Contains(line_lower, <<"a","s","a","p">>)
           \/ Contains(line_lower, <<"c","r","i","t","i","c","a","l">>)
    THEN <<"H","i","g","h">>
    ELSE <<"M","e","d","i","u","m">>

Priority(line_lower) ==
    IF Contains(line_lower, <<"u","r","g","e","n","t">>)
           \/ Contains(line_lower, <<"a","s","a","p">>)
           \/ Contains(line_lower, <<"c","r","i","t","i","c","a","l">>)
    THEN <<"H","i","g","h">>
    ELSE IF Contains(line_lower, <<"w","h","e","n"," ","p","o","s","s","i","b","l","e">>)
           \/ Contains(line_lower, <<"e","v","e","n","t","u","a","l","l","y">>)
    THEN <<"L","o","w">>
    ELSE <<"M","e","d","i","u","m">>

\* the due date of one task; now is the date the datetime.now() call whose
\* value the task keeps returned
DueDate(line_lower, now) ==
    IF Contains(line_lower, <<"t","o","m","o","r","r","o","w">>)
    THEN FormatDate(now + DueTomorrowDays)
    ELSE IF Contains(line_lower, <<"e","n","d"," ","o","f"," ","w","e","e","k">>)
    THEN FormatDate(now + DueEndOfWeekDays)
    ELSE FormatDate(now + DueDefaultDays)

\* desc[:100]
Truncate(desc) == SubSeq(desc, 1, IF Len(desc) < DescLimit THEN Len(desc) ELSE DescLimit)

\* Task(description, assignee, due_date, priority), status left at its default
Task(description, assignee, due_date, priority) ==
    [description |-> description, assignee |-> assignee, due_date |-> due_date,
     priority |-> priority, status |-> "Pending"]

\* the lines the task loop walks
TaskLines(transcript) == SplitOn(Strip(transcript), "\n")

RECURSIVE TasksFrom(_, _, _, _)
\* the loop over the lines from index i; nows[i] is the date read for line i
TasksFrom(lines, atts, nows, i) ==
    IF i > Len(lines) THEN <<>>
    ELSE LET line == lines[i]
             line_lower == Lower(line)
         IN  (IF IsTaskLine(line)
              THEN <<Task(PyStr(Truncate(Content(line))), PyStr(Assignee(atts, line)),
                          PyStr(DueDate(line_lower, nows[i])),
                          PyStr(Priority(line_lower)))>>
              ELSE <<>>)
             \o TasksFrom(lines, atts, nows, i + 1)

extract_tasks_fallback(transcript, atts, nows) ==
    TasksFrom(TaskLines(transcript), atts, nows, 1)

DecisionKeywords ==
    << <<"d","e","c","i","d","e","d">>,
       <<"a","g","r","e","e","d">>,
       <<"a","p","p","r","o","v","e","d">>,
       <<"c","o","n","f","i","r","m","e","d">>,
       <<"w","i","l","l"," ","g","o"," ","w","i","t","h">>,
       <<"f","i","n","a","l"," ","d","e","c","i","s","i","o","n">> >>

RECURSIVE DecisionsFrom(_, _)
\* the loop over the lines from index i
DecisionsFrom(lines, i) ==
    IF i > Len(lines) THEN <<>>
    ELSE (IF AnyIn(DecisionKeywords, Lower(lines[i]))
          THEN <<PyStr(Content(lines[i]))>> ELSE <<>>)
         \o DecisionsFrom(lines, i + 1)

extract_decisions_fallback(transcript) ==
    PyList(DecisionsFrom(SplitOn(Strip(transcript), "\n"), 1))

-----------------------------------------------------------------------------
(* The AI path.  A response of the text-generation service is a sequence   *)
(* of lexical tokens: the fences, whitespace, JSON punctuation, JSON       *)
(* string and number literals, an object key with its colon, and words     *)
(* that are no JSON.  A request that fails raises instead of answering.    *)

\* the three backquotes followed by json, and the three backquotes alone
FenceJson == "[fence]json"
Fence == "[fence]"
StrToks == {"\"a\"", "\"High\""}
NumToks == {"5"}
KeyToks == {"\"description\":", "\"assignee\":", "\"due_date\":", "\"priority\":"}
WordToks == {"not", "json"}

\* the characters a JSON string literal decodes to
StrText(tok) == IF tok = "\"a\"" THEN <<"a">> ELSE <<"H","i","g","h">>

\* the key an object-key token decodes to
KeyName(tok) ==
    CASE tok = "\"description\":" -> "description"
      [] tok = "\"assignee\":" -> "assignee"
      [] tok = "\"due_date\":" -> "due_date"
      [] OTHER -> "priority"

Answer(text) == [ok |-> TRUE, text |-> text]
Failure == [ok |-> FALSE, text |-> <<>>]

\* re.sub of the leading json fence and the whitespace after it
StripLeadingFence(text) ==
    IF Len(text) > 0 /\ text[1] = FenceJson
    THEN LET rest == Tail(text)
             keep == {i \in 1..Len(rest) : ~IsSpace(rest[i])}
         IN  IF keep = {} THEN <<>>
             ELSE SubSeq(rest, CHOOSE i \in keep : \A j \in keep : i <= j, Len(rest))
    ELSE text

\* re.sub of the trailing fence and the whitespace before it
StripTrailingFence(text) ==
    IF Len(text) > 0 /\ text[Len(text)] = Fence
    THEN LET rest == SubSeq(text, 1, Len(text) - 1)
             keep == {i \in 1..Len(rest) : ~IsSpace(rest[i])}
         IN  IF keep = {} THEN <<>>
             ELSE SubSeq(rest, 1, CHOOSE i \in keep : \A j \in keep : j <= i)
    ELSE text

\* the "Clean response" step of both structured extractors
CleanResponse(text) == StripTrailingFence(StripLeadingFence(Strip(text)))

ParseFail == [ok |-> FALSE, val |-> PyNone, rest |-> <<>>]
ParseOk(v, rest) == [ok |-> TRUE, val |-> v, rest |-> rest]

RECURSIVE ParseValue(_)
RECURSIVE ParseElems(_, _)
RECURSIVE ParseMembers(_, _, _)

\* one JSON value at the head of toks (whitespace already skipped)
ParseValue(toks) ==
    IF Len(toks) = 0 THEN ParseFail
    ELSE LET h == Head(toks)
             t == Tail(toks)
         IN  IF h \in StrToks THEN ParseOk(PyStr(StrText(h)), t)
             ELSE IF h \in NumToks THEN ParseOk(PyNum(<<h>>), t)
             ELSE IF h = "null" THEN ParseOk(PyNone, t)
             ELSE IF h = "["
             THEN IF Len(t) > 0 /\ Head(t) = "]"
                  THEN ParseOk(PyList(<<>>), Tail(t))
                  ELSE ParseElems(t, <<>>)
             ELSE IF h = "{"
             THEN IF Len(t) > 0 /\ Head(t) = "}"
                  THEN ParseOk(PyDict(<<>>, <<>>), Tail(t))
                  ELSE ParseMembers(t, <<>>, <<>>)
             ELSE ParseFail

\* the elements of an array after its "[", acc the ones read so far
ParseElems(toks, acc) ==
    LET r == ParseValue(toks)
    IN  IF ~r.ok \/ Len(r.rest) = 0 THEN ParseFail
        ELSE IF Head(r.rest) = "," THEN ParseElems(Tail(r.rest), Append(acc, r.val))
        ELSE IF Head(r.rest) = "]" THEN ParseOk(PyList(Append(acc, r.val)), Tail(r.rest))
        ELSE ParseFail

\* the members of an object after its "{"
ParseMembers(toks, ks, vs) ==
    IF Len(toks) = 0 \/ Head(toks) \notin KeyToks THEN ParseFail
    ELSE LET key == KeyName(Head(toks))
             r == ParseValue(Tail(toks))
         IN  IF ~r.ok \/ Len(r.rest) = 0 THEN ParseFail
             ELSE IF Head(r.rest) = ","
             THEN ParseMembers(Tail(r.rest), Append(ks, key), Append(vs, r.val))
             ELSE IF Head(r.rest) = "}"
             THEN ParseOk(PyDict(Append(ks, key), Append(vs, r.val)), Tail(r.rest))
             ELSE ParseFail

\* json.loads(text): ok is FALSE where it raises JSONDecodeError
json_loads(text) ==
    LET r == ParseValue(SelectSeq(text, LAMBDA c : ~IsSpace(c)))
    IN  IF r.ok /\ Len(r.rest) = 0 THEN ParseOk(r.val, <<>>) ELSE ParseFail

\* d.get(key, default); a repeated key keeps its last value
Get(d, key, default) ==
    LET at == {i \in 1..Len(d.keys) : d.keys[i] = key}
    IN  IF at = {} THEN default
        ELSE d.items[CHOOSE i \in at : \A j \in at : j <= i]

extract_summary_ai(resp) ==
    IF resp.ok THEN Strip(resp.text)
    ELSE <<"Error generating summary: ", "e">>

\* the Task built from one element of the decoded array
TaskOfJson(t, now) ==
    Task(Get(t, "description", PyStr(<<>>)),
         Get(t, "assignee", PyStr(Unassigned)),
         Get(t, "due_date", PyStr(FormatDate(now + DueDefaultDays))),
         Get(t, "priority", PyStr(<<"M","e","d","i","u","m">>)))

\* the loop over tasks_data, nows[i] the date read for element i; ok is FALSE
\* where it raises (iterating a number or None raises TypeError, calling get on
\* an element that is no dict raises AttributeError)
TasksOfData(data, nows) ==
    IF data.k = "list"
    THEN IF \E i \in 1..Len(data.items) : data.items[i].k # "dict"
         THEN [ok |-> FALSE, tasks |-> <<>>]
         ELSE [ok |-> TRUE,
               tasks |-> [i \in 1..Len(data.items) |->
                             TaskOfJson(data.items[i], nows[i])]]
    ELSE IF data.k = "dict"
    THEN [ok |-> Len(data.keys) = 0, tasks |-> <<>>]
    ELSE IF data.k = "str"
    THEN [ok |-> Len(data.text) = 0, tasks |-> <<>>]
    ELSE [ok |-> FALSE, tasks |-> <<>>]

extract_tasks_ai(resp, nows) ==
    IF ~resp.ok THEN <<>>
    ELSE LET data == json_loads(CleanResponse(resp.text))
         IN  IF ~data.ok THEN <<>>
             ELSE LET r == TasksOfData(data.val, nows)
                  IN  IF r.ok THEN r.tasks ELSE <<>>

extract_decisions_ai(resp) ==
    IF ~resp.ok THEN PyList(<<>>)
    ELSE LET data == json_loads(CleanResponse(resp.text))
         IN  IF data.ok THEN data.val ELSE PyList(<<>>)

-----------------------------------------------------------------------------
(* The session: the state the script keeps between reruns, and one action  *)
(* per widget event, each the whole rerun the event causes.                *)

Min(a, b) == IF a < b THEN a ELSE b

\* the date of a clock reading
Day(t) == t \div TicksPerDay

\* The readings n successive datetime.now() calls can return after a reading
\* of from: the clock never runs backwards, and stops at MaxClock.
RECURSIVE NowSeqs(_, _)
NowSeqs(from, n) ==
    IF n = 0 THEN {<<>>}
    ELSE UNION {{<<t>> \o rest : rest \in NowSeqs(t, n - 1)} : t \in from..MaxClock}

Last(from, nows) == IF Len(nows) = 0 THEN from ELSE nows[Len(nows)]

Days(nows) == [i \in 1..Len(nows) |-> Day(nows[i])]

\* Meeting(id=now.strftime("%Y%m%d%H%M%S"), title, date, duration, attendees)
Meeting(now, atts) ==
    [id |-> now, title |-> "Team Meeting", date |-> FormatDate(Day(now)),
     duration |-> DefaultDuration, attendees |-> atts, transcript |-> <<>>,
     summary |-> <<>>, tasks |-> <<>>, action_items |-> <<>>,
     decisions |-> PyList(<<>>)]

\* the path chosen by the key alone, whatever the checkbox says
UsesAIKeyOnly == api_key # ""

\* use_ai and st.session_state.api_key
UsesAI == use_ai /\ api_key # ""

\* the datetime.now() calls whose value a task extraction keeps
NumReads(ai, transcript, resp) ==
    IF ai
    THEN IF resp.ok
         THEN LET data == json_loads(CleanResponse(resp.text))
              IN  IF data.ok /\ data.val.k = "list" THEN Len(data.val.items) ELSE 0
         ELSE 0
    ELSE Len(TaskLines(transcript))

\* the three extractions of one path
Extract(ai, transcript, atts, svc, nows, seed) ==
    IF ai
    THEN [summary |-> extract_summary_ai(svc.summary),
          tasks |-> extract_tasks_ai(svc.tasks, Days(nows)),
          decisions |-> extract_decisions_ai(svc.decisions)]
    ELSE [summary |-> extract_summary_fallback(transcript, seed),
          tasks |-> extract_tasks_fallback(transcript, atts, Days(nows)),
          decisions |-> extract_decisions_fallback(transcript)]

\* the generate_content calls of the three extractors of the AI path; the
\* heuristic extractors make none
ExtractionRequests(ai) ==
    IF ai THEN {"summary", "tasks", "decisions"} ELSE {}

\* the Follow-up tab, drawn by every rerun that reaches it: the email of a
\* meeting with a summary is asked from the service on the AI path
FollowupRequests(ai, h, ref) ==
    IF ref # None /\ h[ref].summary # <<>> /\ ai THEN {"email"} ELSE {}

\* the save without the filter on the id
UpsertAppendOnly(ms, h, ref) == Append(ms, ref)

\* existing = [m for m in meetings if m.id != meeting.id]; existing.append(meeting)
Upsert(ms, h, ref) ==
    Append(SelectSeq(ms, LAMBDA r : h[r].id # h[ref].id), ref)

NoRet == [summary |-> <<>>, tasks |-> <<>>, decisions |-> PyList(<<>>)]
NoMemo == [set |-> FALSE, out |-> NoRet]
NoService == [summary |-> Failure, tasks |-> Failure, decisions |-> Failure]

(* The inputs of the session.                                              *)

Alice == <<"A","l">>
Bob == <<"B","o","b">>

SessionTranscripts ==
    { <<"B","o","b",":"," ","w","i","l","l">>,
      <<"A","l",":"," ","c","o","s","t"," ","i","s","s","u","e"," ","t","o","d","o">> }

SessionAnswers ==
    [summary : {Failure, Answer(<<" ", "json", "\n">>)},
     tasks : {Failure, Answer(<<"[", "{", "\"priority\":", "\"High\"", "}", "]">>)},
     decisions : {Failure,
                  Answer(<<FenceJson, "\n", "[", "\"a\"", "]", "\n", Fence>>),
                  Answer(<<"5">>)}]

\* the seeds of the sessions explored: two orders of the labels
SessionSeeds ==
    {s \in Seeds : s[1] = "Project Updates" /\ s[2] = "Timeline Discussion"}

SessionInit ==
    /\ heap = <<>>
    /\ extracted_from = <<>>
    /\ meetings = <<>>
    /\ current_meeting = None
    /\ is_recording = FALSE
    /\ api_key = ""
    /\ use_ai = FALSE
    /\ service = NoService
    /\ op = "init"
    /\ path = "none"
    /\ ret = NoRet
    /\ memo = NoMemo
    /\ runs = 0
    /\ saved = {}
    /\ requests = {}

Init ==
    /\ SessionInit
    /\ attendees = <<Alice, Bob>>
    /\ transcript_input = <<>>
    /\ clock = 0
    /\ hashSeed \in SessionSeeds

\* one more rerun of the script, within the bound on the session's length
Rerun == runs < MaxRuns /\ runs' = runs + 1

\* the user types a key into the sidebar: with the first key the checkbox is
\* enabled and checked, with a later one it stays as the user left it
api_key_input ==
    /\ Rerun
    /\ api_key' = "key"
    /\ use_ai' = IF api_key = "" THEN TRUE ELSE use_ai
    /\ op' = "api_key"
    /\ path' = "none"
    /\ requests' = FollowupRequests(UsesAI', heap, current_meeting)
    /\ UNCHANGED <<heap, extracted_from, meetings, current_meeting, is_recording,
                   attendees, transcript_input, clock, hashSeed, service, ret, memo, saved>>

\* the user flips the checkbox, which is disabled while there is no key
use_ai_checkbox ==
    /\ Rerun
    /\ api_key # ""
    /\ use_ai' = ~use_ai
    /\ op' = "use_ai"
    /\ path' = "none"
    /\ UNCHANGED <<heap, extracted_from, meetings, current_meeting, is_recording,
                   api_key, attendees, transcript_input, clock, hashSeed, service,
                   ret, memo, saved>>
    /\ requests' = FollowupRequests(UsesAI', heap, current_meeting)

\* the user edits the transcript text area
transcript_edit ==
    /\ Rerun
    /\ \E t \in SessionTranscripts \cup {<<>>} :
          t # transcript_input /\ transcript_input' = t
    /\ op' = "transcript"
    /\ path' = "none"
    /\ requests' = FollowupRequests(UsesAI, heap, current_meeting)
    /\ UNCHANGED <<heap, extracted_from, meetings, current_meeting, is_recording,
                   api_key, use_ai, attendees, clock, hashSeed, service, ret, memo, saved>>

\* the Start / Stop button
start_btn ==
    /\ Rerun
    /\ is_recording' = ~is_recording
    /\ IF ~is_recording
       THEN /\ Len(heap) < MaxObjs
            /\ \E now \in clock..MaxClock :
                  /\ heap' = Append(heap, Meeting(now, attendees))
                  /\ clock' = now
            /\ extracted_from' = Append(extracted_from, <<>>)
            /\ current_meeting' = Len(heap) + 1
       ELSE UNCHANGED <<heap, extracted_from, current_meeting, clock>>
    /\ op' = "start"
    /\ path' = "none"
    /\ requests' = FollowupRequests(UsesAI, heap', current_meeting')
    /\ UNCHANGED <<meetings, api_key, use_ai, attendees, transcript_input,
                   hashSeed, service, ret, memo, saved>>

\* the New button
new_btn ==
    /\ Rerun
    /\ current_meeting' = None
    /\ is_recording' = FALSE
    /\ op' = "new"
    /\ path' = "none"
    /\ requests' = FollowupRequests(UsesAI, heap, current_meeting')
    /\ UNCHANGED <<heap, extracted_from, meetings, api_key, use_ai, attendees,
                   transcript_input, clock, hashSeed, service, ret, memo, saved>>

\* the Clear button: st.rerun() ends the run before the Follow-up tab and the
\* script runs again
clear_btn ==
    /\ Rerun
    /\ current_meeting' = None
    /\ op' = "clear"
    /\ path' = "none"
    /\ requests' = FollowupRequests(UsesAI, heap, current_meeting')
    /\ UNCHANGED <<heap, extracted_from, meetings, is_recording, api_key, use_ai,
                   attendees, transcript_input, clock, hashSeed, service, ret, memo, saved>>

\* heap h with the extraction of transcript t written into object ref
WithExtraction(h, ref, t, ex) ==
    [h EXCEPT ![ref].transcript = t, ![ref].summary = ex.summary,
              ![ref].tasks = ex.tasks, ![ref].decisions = ex.decisions]

\* the Process Transcript button
process_btn ==
    /\ Rerun
    /\ transcript_input # <<>>
    /\ current_meeting = None => Len(heap) < MaxObjs
    /\ \E svc \in IF UsesAI THEN SessionAnswers ELSE {service} :
       \E now \in IF current_meeting = None THEN clock..MaxClock ELSE {clock} :
       \E nows \in NowSeqs(now, NumReads(UsesAI, transcript_input, svc.tasks)) :
          LET fresh == current_meeting = None
              ref == IF fresh THEN Len(heap) + 1 ELSE current_meeting
              base == IF fresh THEN Append(heap, Meeting(now, attendees)) ELSE heap
              ex == Extract(UsesAI, transcript_input, attendees, svc, nows, hashSeed)
          IN  /\ heap' = WithExtraction(base, ref, transcript_input, ex)
              /\ extracted_from' =
                    [(IF fresh THEN Append(extracted_from, <<>>) ELSE extracted_from)
                        EXCEPT ![ref] = transcript_input]
              /\ current_meeting' = ref
              /\ service' = svc
              /\ clock' = Last(now, nows)
    /\ op' = "process"
    /\ path' = IF UsesAI THEN "ai" ELSE "heuristic"
    /\ requests' = ExtractionRequests(UsesAI)
                       \cup FollowupRequests(UsesAI, heap', current_meeting')
    /\ UNCHANGED <<meetings, is_recording, api_key, use_ai, attendees,
                   transcript_input, hashSeed, ret, memo, saved>>

\* the Save Meeting button
save_btn ==
    /\ Rerun
    /\ current_meeting # None
    /\ LET ref == current_meeting
           extract == heap[ref].summary = <<>>
       IN  \E svc \in IF extract /\ UsesAI THEN SessionAnswers ELSE {service} :
           \E nows \in IF extract
                       THEN NowSeqs(clock, NumReads(UsesAI, transcript_input, svc.tasks))
                       ELSE {<<>>} :
              LET ex == Extract(UsesAI, transcript_input, attendees, svc, nows, hashSeed)
              IN  /\ heap' = IF extract
                             THEN WithExtraction(heap, ref, transcript_input, ex)
                             ELSE [heap EXCEPT ![ref].transcript = transcript_input]
                  /\ extracted_from' =
                        IF extract
                        THEN [extracted_from EXCEPT ![ref] = transcript_input]
                        ELSE extracted_from
                  /\ meetings' = Upsert(meetings, heap', ref)
                  /\ service' = svc
                  /\ clock' = Last(clock, nows)
                  /\ path' = IF ~extract THEN "none"
                             ELSE IF UsesAI THEN "ai" ELSE "heuristic"
                  /\ requests' = (IF extract THEN ExtractionRequests(UsesAI) ELSE {})
                                     \cup FollowupRequests(UsesAI, heap', current_meeting)
    /\ op' = "save"
    /\ saved' = saved \cup {current_meeting}
    /\ UNCHANGED <<current_meeting, is_recording, api_key, use_ai, attendees,
                   transcript_input, hashSeed, ret, memo>>

\* a Load Meeting button of the History tab: the run has drawn the Follow-up
\* tab for the meeting that was current, and st.rerun() draws it for the loaded one
load_btn ==
    /\ Rerun
    /\ \E i \in 1..Len(meetings) : current_meeting' = meetings[i]
    /\ op' = "load"
    /\ path' = "none"
    /\ requests' = FollowupRequests(UsesAI, heap, current_meeting)
                       \cup FollowupRequests(UsesAI, heap, current_meeting')
    /\ UNCHANGED <<heap, extracted_from, meetings, is_recording, api_key, use_ai,
                   attendees, transcript_input, clock, hashSeed, service, ret, memo, saved>>

Next ==
    \/ api_key_input
    \/ use_ai_checkbox
    \/ transcript_edit
    \/ start_btn
    \/ new_btn
    \/ clear_btn
    \/ process_btn
    \/ save_btn
    \/ load_btn

Spec == Init /\ [][Next]_vars

-----------------------------------------------------------------------------
(* The extractors on their own: the inputs are drawn at the start and one  *)
(* call applies the function to them.                                      *)

Bo == <<"B","o">>

AttendeeLists == {<<>>, <<Alice, Bob>>, <<Bob, Alice>>, <<Bo, Bob>>}

\* the pieces generated transcripts are made of
Words ==
    { <<"B","o","b">>,
      <<"a","l">>,
      <<":"," ">>,
      <<"\n">>,
      <<"w","i","l","l">>,
      <<"T","o","d","o"," ","T","a","s","k">>,
      <<"u","r","g","e","n","t">>,
      <<"e","v","e","n","t","u","a","l","l","y">>,
      <<"t","o","m","o","r","r","o","w">>,
      <<"e","n","d"," ","o","f"," ","w","e","e","k">> }

RECURSIVE Texts(_)
\* the concatenations of at most n words
Texts(n) ==
    IF n = 0 THEN {<<>>}
    ELSE Texts(n - 1) \cup {w \o t : w \in Words, t \in Texts(n - 1)}

TasksInit ==
    /\ SessionInit
    /\ attendees \in AttendeeLists
    /\ transcript_input \in Texts(MaxWords)
    /\ clock = 0
    /\ hashSeed = CHOOSE s \in SessionSeeds : TRUE

\* one call of extract_tasks_fallback, the clock running while it works
call_extract_tasks_fallback ==
    /\ op = "init"
    /\ \E nows \in NowSeqs(clock, Len(TaskLines(transcript_input))) :
          /\ ret' = [ret EXCEPT !.tasks =
                        extract_tasks_fallback(transcript_input, attendees, Days(nows))]
          /\ clock' = Last(clock, nows)
    /\ op' = "extract_tasks_fallback"
    /\ UNCHANGED <<heap, extracted_from, meetings, current_meeting, is_recording,
                   api_key, use_ai, attendees, transcript_input, hashSeed, service,
                   path, memo, runs, saved, requests>>

TasksNext == call_extract_tasks_fallback

SpecTasks == TasksInit /\ [][TasksNext]_vars

(* The heuristic path as a whole, with the clock held fixed.               *)

HeuristicTranscripts ==
    { <<"B","o","b",":"," ","w","i","l","l">>,
      <<"a",":"," ","u","p","d","a","t","e","\n",
        "b",":"," ","a","g","r","e","e","d"," ","d","e","a","d","l","i","n","e">>,
      <<"a",":"," ","p","r","o","j","e","c","t"," ","b","u","d","g","e","t","\n",
        "b",":"," ","t","i","m","e","l","i","n","e"," ","b","l","o","c","k","e","r">> }

HeuristicInit ==
    /\ SessionInit
    /\ attendees = <<Alice, Bob>>
    /\ transcript_input \in HeuristicTranscripts
    /\ clock \in 0..MaxClock
    /\ hashSeed \in Seeds

\* one call of the three heuristic extractors, every datetime.now() reading clock
call_heuristic ==
    /\ LET nows == [i \in 1..Len(TaskLines(transcript_input)) |-> clock]
       IN  ret' = Extract(FALSE, transcript_input, attendees, service, nows, hashSeed)
    /\ memo' = IF memo.set THEN memo ELSE [set |-> TRUE, out |-> ret']
    /\ op' = "heuristic"
    /\ UNCHANGED <<heap, extracted_from, meetings, current_meeting, is_recording,
                   api_key, use_ai, attendees, transcript_input, clock, hashSeed,
                   service, path, runs, saved, requests>>

\* the server is started again: a new interpreter process, with its own hash
\* seed, runs the script from an empty session state
restart ==
    /\ \E s \in Seeds : s # hashSeed /\ hashSeed' = s
    /\ op' = "restart"
    /\ UNCHANGED <<heap, extracted_from, meetings, current_meeting, is_recording,
                   api_key, use_ai, attendees, transcript_input, clock, service,
                   path, ret, memo, runs, saved, requests>>

HeuristicNext == call_heuristic \/ restart

SpecHeuristic == HeuristicInit /\ [][HeuristicNext]_vars

(* The structured extractors of the AI path on their own.                  *)

BodyToks == {"[", "]", "{", "}", ",", "\"a\"", "5", "\"priority\":", "not", "null"}

RECURSIVE Bodies(_)
\* the token sequences of at most n body tokens
Bodies(n) ==
    IF n = 0 THEN {<<>>}
    ELSE Bodies(n - 1) \cup {<<c>> \o t : c \in BodyToks, t \in Bodies(n - 1)}

\* a body as the service may wrap it: bare, or between fences and whitespace
Wrappings(body) ==
    {pre \o body \o post :
        pre \in {<<>>, <<FenceJson>>, <<" ", FenceJson, "\n">>, <<Fence, "\n">>},
        post \in {<<>>, <<Fence>>, <<"\n", Fence, "\n">>}}

ServiceAnswers ==
    {Failure} \cup {Answer(t) : t \in UNION {Wrappings(b) : b \in Bodies(MaxToks)}}

AIInit ==
    /\ heap = <<>>
    /\ extracted_from = <<>>
    /\ meetings = <<>>
    /\ current_meeting = None
    /\ is_recording = FALSE
    /\ api_key = "key"
    /\ use_ai = TRUE
    /\ \E r \in ServiceAnswers : service = [summary |-> r, tasks |-> r, decisions |-> r]
    /\ op = "init"
    /\ path = "none"
    /\ ret = NoRet
    /\ memo = NoMemo
    /\ runs = 0
    /\ saved = {}
    /\ requests = {}
    /\ attendees = <<Alice, Bob>>
    /\ transcript_input = <<"B","o","b",":"," ","w","i","l","l">>
    /\ clock = 0
    /\ hashSeed = CHOOSE s \in SessionSeeds : TRUE

AIFrame ==
    UNCHANGED <<heap, extracted_from, meetings, current_meeting, is_recording,
                api_key, use_ai, attendees, transcript_input, hashSeed, service,
                path, memo, runs, saved>>

call_extract_summary_ai ==
    /\ op = "init"
    /\ ret' = [ret EXCEPT !.summary = extract_summary_ai(service.summary)]
    /\ op' = "extract_summary_ai"
    /\ requests' = {"summary"}
    /\ UNCHANGED clock
    /\ AIFrame

call_extract_tasks_ai ==
    /\ op = "init"
    /\ \E nows \in NowSeqs(clock, NumReads(TRUE, transcript_input, service.tasks)) :
          /\ ret' = [ret EXCEPT !.tasks = extract_tasks_ai(service.tasks, Days(nows))]
          /\ clock' = Last(clock, nows)
    /\ op' = "extract_tasks_ai"
    /\ requests' = {"tasks"}
    /\ AIFrame

call_extract_decisions_ai ==
    /\ op = "init"
    /\ ret' = [ret EXCEPT !.decisions = extract_decisions_ai(service.decisions)]
    /\ op' = "extract_decisions_ai"
    /\ requests' = {"decisions"}
    /\ UNCHANGED clock
    /\ AIFrame

AINext ==
    \/ call_extract_summary_ai
    \/ call_extract_tasks_ai
    \/ call_extract_decisions_ai

SpecAI == AIInit /\ [][AINext]_vars

-----------------------------------------------------------------------------
(* The claims.                                                             *)

\* the records the store holds, in list order
StoreRecords == [i \in 1..Len(meetings) |-> heap[meetings[i]]]

\* the places of the store that hold a record with this id
StoredUnder(id) == {i \in 1..Len(meetings) : heap[meetings[i]].id = id}

\* C1: the store never holds two records with one id, and right after a Save
\* the one record stored under the saved meeting's id has the fields of the
\* meeting that Save was given.
C1_OneRecordPerId ==
    /\ \A i, j \in 1..Len(meetings) :
          i # j => heap[meetings[i]].id # heap[meetings[j]].id
    /\ op = "save" =>
          /\ Cardinality(StoredUnder(heap[current_meeting].id)) = 1
          /\ \A i \in StoredUnder(heap[current_meeting].id) :
                StoreRecords[i] = heap[current_meeting]

\* A Save has just replaced an earlier committed meeting that had the same id
\* and was another object.
C1_Witness ==
    /\ op = "save"
    /\ \E r \in saved :
          /\ r # current_meeting
          /\ heap[r].id = heap[current_meeting].id
          /\ meetings = <<current_meeting>>

\* the array the cleaned answer decodes to, the empty list when it is no array
\* or the call failed
DecodedArrayOrEmpty(resp) ==
    IF resp.ok /\ json_loads(CleanResponse(resp.text)).ok
              /\ json_loads(CleanResponse(resp.text)).val.k = "list"
    THEN json_loads(CleanResponse(resp.text)).val
    ELSE PyList(<<>>)

\* C2: after a Process on the AI path each field is decided by its own call:
\* the summary is the trimmed answer or the error text, the tasks are a list
\* that is empty when the task call failed, the decisions are the decoded list
\* or the empty list.
C2_EachFieldByItsOwnCall ==
    (op = "process" /\ path = "ai") =>
        LET m == heap[current_meeting]
        IN  /\ m.summary = IF service.summary.ok THEN Strip(service.summary.text)
                           ELSE <<"Error generating summary: ", "e">>
            /\ ~service.tasks.ok => m.tasks = <<>>
            /\ m.decisions = DecodedArrayOrEmpty(service.decisions)

\* C3: extract_tasks_ai and extract_decisions_ai return the decoded array when
\* the cleaned answer is a JSON array and the empty sequence in every other
\* case, a failed call included.
C3_SequenceOrEmpty ==
    /\ op = "extract_decisions_ai" =>
          ret.decisions = DecodedArrayOrEmpty(service.decisions)
    /\ op = "extract_tasks_ai" =>
          Len(ret.tasks) = Len(DecodedArrayOrEmpty(service.tasks).items)

\* C4: a meeting with a non-empty summary has as transcript the text its
\* summary, tasks and decisions were last extracted from.
C4_TranscriptIsExtractedText ==
    \A r \in 1..Len(heap) :
        heap[r].summary # <<>> => heap[r].transcript = extracted_from[r]

\* C5: a step that is no Save leaves every record of the store as it was.
C5_StoreChangedOnlyBySave ==
    [][op' # "save" => StoreRecords' = StoreRecords]_vars

\* C6: every call of the heuristic extractors on the same transcript and
\* attendees with the same clock returns what the first such call returned.
C6_SameOutputForSameInput ==
    op = "heuristic" => ret = memo.out

(* The heuristic task rules as the specification words them.               *)

TriggerPhrases ==
    { <<"w","i","l","l">>, <<"n","e","e","d"," ","t","o">>, <<"s","h","o","u","l","d">>,
      <<"a","c","t","i","o","n"," ","i","t","e","m">>, <<"t","o","d","o">>,
      <<"t","a","s","k">>, <<"f","o","l","l","o","w"," ","u","p">>,
      <<"d","e","a","d","l","i","n","e">> }

\* the trigger phrases the lower-cased line contains
TriggersIn(line) == {ph \in TriggerPhrases : Contains(Lower(line), ph)}

\* the lines of the transcript as given, and those with a trigger phrase
InputLines == SplitOn(transcript_input, "\n")
TriggerLines == SelectSeq(InputLines, LAMBDA l : TriggersIn(l) # {})

\* the text of a line a Task describes: what follows the first colon, trimmed
Described(line) == Strip(SubSeq(line, FirstIndex(line, ":") + 1, Len(line)))

\* C7: the Tasks are, in line order, one for each line that contains a trigger
\* phrase, and none for any other line.
C7_OneTaskPerTriggerLine ==
    op = "extract_tasks_fallback" =>
        /\ Len(ret.tasks) = Len(TriggerLines)
        /\ \A k \in 1..Len(ret.tasks) :
              ret.tasks[k].description.text = Described(TriggerLines[k])

\* Two lines, one without a trigger phrase and one with two of them, gave one Task.
C7_Witness ==
    /\ op = "extract_tasks_fallback"
    /\ Len(ret.tasks) = 1
    /\ \E i, j \in 1..Len(InputLines) :
          /\ Len(InputLines[i]) > 0
          /\ TriggersIn(InputLines[i]) = {}
          /\ Cardinality(TriggersIn(InputLines[j])) >= 2

\* the attendees whose lower-cased name occurs in the line
Named(line) == {i \in 1..Len(attendees) : Contains(Lower(line), Lower(attendees[i]))}

\* C8: the assignee of each Task is the first attendee in list order whose
\* lower-cased name occurs in the line, and "Unassigned" when none does.
C8_FirstNamedAttendee ==
    op = "extract_tasks_fallback" =>
        \A k \in 1..Len(ret.tasks) :
            LET named == Named(TriggerLines[k])
            IN  ret.tasks[k].assignee.text =
                    IF named = {} THEN Unassigned
                    ELSE attendees[CHOOSE i \in named : \A j \in named : i <= j]

\* A line names two attendees and its Task went to the one earlier in the list.
C8_Witness ==
    /\ op = "extract_tasks_fallback"
    /\ \E k \in 1..Len(ret.tasks) :
          /\ Cardinality(Named(TriggerLines[k])) >= 2
          /\ ret.tasks[k].assignee.text = attendees[1]

HighMarkers == { <<"u","r","g","e","n","t">>, <<"a","s","a","p">>,
                 <<"c","r","i","t","i","c","a","l">> }
LowMarkers == { <<"w","h","e","n"," ","p","o","s","s","i","b","l","e">>,
                <<"e","v","e","n","t","u","a","l","l","y">> }

HasAny(line, markers) == \E mk \in markers : Contains(Lower(line), mk)

\* C9: the priority of each Task is High if its line has a High marker, else
\* Low if it has a Low marker, else Medium.
C9_PriorityRule ==
    op = "extract_tasks_fallback" =>
        \A k \in 1..Len(ret.tasks) :
            /\ ret.tasks[k].priority.text \in
                  {<<"H","i","g","h">>, <<"M","e","d","i","u","m">>, <<"L","o","w">>}
            /\ ret.tasks[k].priority.text =
                  IF HasAny(TriggerLines[k], HighMarkers) THEN <<"H","i","g","h">>
                  ELSE IF HasAny(TriggerLines[k], LowMarkers) THEN <<"L","o","w">>
                  ELSE <<"M","e","d","i","u","m">>

\* A line with both a High and a Low marker gave a High Task.
C9_Witness ==
    /\ op = "extract_tasks_fallback"
    /\ \E k \in 1..Len(ret.tasks) :
          /\ HasAny(TriggerLines[k], HighMarkers)
          /\ HasAny(TriggerLines[k], LowMarkers)
          /\ ret.tasks[k].priority.text = <<"H","i","g","h">>

\* the days the specification adds to today for a line
DaysAhead(line) ==
    IF Contains(Lower(line), <<"t","o","m","o","r","r","o","w">>) THEN 1
    ELSE IF Contains(Lower(line), <<"e","n","d"," ","o","f"," ","w","e","e","k">>) THEN 5
    ELSE 7

\* C10: there is one date, today, such that the due date of every Task of the
\* call is today + 1, today + 5 or today + 7 days, as its line says.
C10_OneTodayForAllTasks ==
    op = "extract_tasks_fallback" =>
        \E today \in 0..Day(MaxClock) :
            \A k \in 1..Len(ret.tasks) :
                ret.tasks[k].due_date.text = FormatDate(today + DaysAhead(TriggerLines[k]))

\* the task lists the two extractors can give for the session's inputs, over
\* the readings of the clock
HeuristicTasks ==
    {extract_tasks_fallback(transcript_input, attendees, Days(nows)) :
        nows \in NowSeqs(0, Len(TaskLines(transcript_input)))}
AITasks ==
    {extract_tasks_ai(service.tasks, Days(nows)) :
        nows \in NowSeqs(0, NumReads(TRUE, transcript_input, service.tasks))}

\* C11: an extraction run by Process or by Save takes the AI path exactly when
\* the checkbox is on and the key is non-empty, and the heuristic path
\* otherwise; summary, tasks and decisions are all three the path's own
\* results, the AI path asking the service for each and the heuristic path for
\* none; and while the key is empty no rerun asks the service for anything,
\* the follow-up email included.
C11_PathAllOrNothingKeyGated ==
    /\ (op \in {"process", "save"} /\ path # "none") =>
          LET m == heap[current_meeting]
          IN  /\ (path = "ai") <=> (use_ai /\ api_key # "")
              /\ path = "ai" =>
                    /\ m.summary = extract_summary_ai(service.summary)
                    /\ m.tasks \in AITasks
                    /\ m.decisions = extract_decisions_ai(service.decisions)
                    /\ {"summary", "tasks", "decisions"} \subseteq requests
              /\ path = "heuristic" =>
                    /\ m.summary = extract_summary_fallback(transcript_input, hashSeed)
                    /\ m.tasks \in HeuristicTasks
                    /\ m.decisions = extract_decisions_fallback(transcript_input)
                    /\ requests \cap {"summary", "tasks", "decisions"} = {}
    /\ api_key = "" => requests = {}

\* A Save ran the extraction on the AI path and the same rerun asked the
\* service for the follow-up email.
C11_Witness ==
    /\ op = "save"
    /\ path = "ai"
    /\ requests = {"summary", "tasks", "decisions", "email"}

====
